---------------------------- MODULE Spec2Model ----------------------------
(***************************************************************************)
(* Model of the METS compilation core of siptools:                         *)
(*   siptools/scripts/compile_structmap.py  (fileSec / structMap builder)  *)
(*   siptools/scripts/compile_mets.py       (fragment merger / compiler)   *)
(* Strings are sequences of one-character strings, so that splitting,      *)
(* joining, percent-encoding and substring tests are computed and not      *)
(* assumed.  An optional value (Python None or a value) is a sequence of   *)
(* length 0 or 1.                                                          *)
(***************************************************************************)
EXTENDS Integers, Sequences, FiniteSets, TLC

VARIABLES
    filelist,     \* get_objectlist(workspace): sorted list of object paths
    refTables,    \* reference tables of the workspace, by file-name category
    refBuffer,    \* references buffered by the running metadata creator
    scraper,      \* <id>-scraper.pkl files of the workspace, keyed by id
    wsNames,      \* names of the descriptive fragments in the workspace
    structType,   \* --structmap_type
    rootType,     \* --root_type
    filesec,      \* fileGrp children built by the structmap stage
    structmap,    \* root div built by the structmap stage (optional)
    uuidCount,    \* number of uuid4() values drawn so far
    outFiles,     \* files written by compile_structmap.main
    pc,           \* position of the running script
    err,          \* exception that ended the script, "" if none
    refCategory,  \* category of the running metadata creator
    written,      \* history: the (record id, target) pairs persisted so far
    lookupQuery,  \* arguments of the last get_amd_references call (optional)
    lookupResult, \* what that call returned
    wsFiles,      \* the files of the workspace tree seen by compile_mets
    opts,         \* options of compile_mets
    scanned,      \* file names in the order scandir returned them
    metsDoc,      \* document returned by create_mets (optional)
    ead,          \* EAD3 finding aid read by create_ead3_structmap
    call          \* a call of a utility function and its result (optional)

vars == <<filelist, refTables, refBuffer, scraper, wsNames, structType,
          rootType, filesec, structmap, uuidCount, outFiles, pc, err,
          refCategory, written, lookupQuery, lookupResult,
          wsFiles, opts, scanned, metsDoc, ead, call>>

compileVars == <<wsFiles, opts, scanned, metsDoc>>

-----------------------------------------------------------------------------
(* Bounds of the model *)

\* largest number of object paths in the object list
MaxFiles == 3

\* largest number of references the metadata creators add in one behaviour
MaxRefs == 3

-----------------------------------------------------------------------------
(* Strings *)

None == <<>>
Some(v) == <<v>>

SLASH == "/"

RECURSIVE Concat(_)
\* ''.join(parts)
Concat(parts) ==
    IF parts = <<>> THEN <<>> ELSE Head(parts) \o Concat(Tail(parts))

RECURSIVE Split(_,_)
\* s.split(sep): the separator-free pieces of s, empty pieces included
Split(s, sep) ==
    IF \A i \in 1..Len(s) : s[i] # sep
    THEN <<s>>
    ELSE LET k == CHOOSE i \in 1..Len(s) :
                      s[i] = sep /\ \A j \in 1..(i - 1) : s[j] # sep
         IN  <<SubSeq(s, 1, k - 1)>> \o Split(SubSeq(s, k + 1, Len(s)), sep)

RECURSIVE Join(_,_)
\* sep.join(parts)
Join(parts, sep) ==
    IF parts = <<>> THEN <<>>
    ELSE IF Len(parts) = 1 THEN parts[1]
    ELSE parts[1] \o <<sep>> \o Join(Tail(parts), sep)

\* sub in s (Python substring test)
Contains(sub, s) ==
    \E i \in 0..(Len(s) - Len(sub)) : SubSeq(s, i + 1, i + Len(sub)) = sub

\* s.startswith(pre)
StartsWith(s, pre) ==
    Len(pre) <= Len(s) /\ SubSeq(s, 1, Len(pre)) = pre

\* s.endswith(suf)
EndsWith(s, suf) ==
    Len(suf) <= Len(s) /\ SubSeq(s, Len(s) - Len(suf) + 1, Len(s)) = suf

\* characters urllib.quote never escapes (those of the model's alphabet)
Unreserved == {"a", "b", "c", "d", "e", "l", "m", "s", "x", "r",
               "0", "1", "2", "3", "5", "F", ".", "_", "-"}

\* the %XX escape of one character
PercentCode(c) ==
    CASE c = "/" -> <<"%", "2", "F">>
      [] c = " " -> <<"%", "2", "0">>
      [] c = "%" -> <<"%", "2", "5">>
      [] OTHER   -> <<"%", "3", "F">>

RECURSIVE Quote(_,_)
\* urllib.quote(s, safe)
Quote(s, safe) ==
    IF s = <<>> THEN <<>>
    ELSE (IF Head(s) \in Unreserved \cup safe
          THEN <<Head(s)>> ELSE PercentCode(Head(s)))
         \o Quote(Tail(s), safe)

\* siptools.utils.encode_path(path, safe=safe), without prefix and suffix
encode_path(path, safe) == Quote(path, safe)

\* siptools.utils.encode_id(name): the id of the fragment file `name`
encode_id(name) == <<"_">> \o Quote(name, {})

\* os.path.join(path, div)
path_join(path, div) ==
    IF div # <<>> /\ Head(div) = SLASH THEN div
    ELSE IF path = <<>> \/ path[Len(path)] = SLASH THEN path \o div
    ELSE path \o <<SLASH>> \o div

RECURSIVE NormComps(_,_)
\* the component loop of os.path.normpath
NormComps(comps, acc) ==
    IF comps = <<>> THEN acc
    ELSE LET c == Head(comps) IN
         IF c = <<>> \/ c = <<".">> THEN NormComps(Tail(comps), acc)
         ELSE IF c = <<".", ".">> /\ acc # <<>> /\ acc[Len(acc)] # <<".", ".">>
              THEN NormComps(Tail(comps), SubSeq(acc, 1, Len(acc) - 1))
         ELSE NormComps(Tail(comps), Append(acc, c))

\* os.path.normpath(path) for a relative path
normpath(path) ==
    LET comps == NormComps(Split(path, SLASH), <<>>)
    IN  IF comps = <<>> THEN <<".">> ELSE Join(comps, SLASH)

\* the elements of a sequence
Range(s) == {s[i] : i \in 1..Len(s)}

\* '%s' % stream
ToStr(n) == <<(<<"0", "1", "2", "3">>)[n + 1]>>

\* '%s' % path, where path may be None
FormatOpt(opt) == IF opt = None THEN <<"N", "o", "n", "e">> ELSE opt[1]


-----------------------------------------------------------------------------
(* Reference store *)

\* metadata-record ids
ID1 == <<"_", "r", "1">>
ID2 == <<"_", "r", "2">>
RecordIds == {ID1, ID2}

\* the reference tables <category>-references.xml
Categories == {"amd", "md", "techmd"}

\* a reference table that was never written
NoTable == [exists |-> FALSE, entries |-> <<>>]

\* logical targets
FileT(p) == [kind |-> "file", path |-> p, stream |-> None]
StreamT(p, i) == [kind |-> "stream", path |-> p, stream |-> Some(i)]
DirT(d) == [kind |-> "directory", path |-> d, stream |-> None]

\* The element written for one buffered reference: a directory
\* target sets the directory attribute (normalized), a file target the file
\* attribute, a stream target the file and the stream attribute.
ReferenceElement(ref) ==
    IF ref.target.kind = "directory"
    THEN [id |-> ref.id, file |-> None, stream |-> None,
          directory |-> Some(normpath(ref.target.path))]
    ELSE [id |-> ref.id, file |-> Some(ref.target.path),
          stream |-> IF ref.target.kind = "stream"
                     THEN Some(ToStr(ref.target.stream[1])) ELSE None,
          directory |-> None]

\* add_reference(record_id, target): buffers, no I/O
add_reference(buffer, id, target) ==
    Append(buffer, [id |-> id, target |-> target])

RECURSIVE MapElements(_)
MapElements(buffer) ==
    IF buffer = <<>> THEN <<>>
    ELSE <<ReferenceElement(Head(buffer))>> \o MapElements(Tail(buffer))

\* write(): persists the buffered entries in the table of the category
write_references(tables, category, buffer) ==
    [tables EXCEPT ![category] =
        [exists |-> TRUE, entries |-> @.entries \o MapElements(buffer)]]

\* get_amd_references as it would be without the not(@stream) test
get_amd_references_any_stream(tables, path, stream, directory) ==
    LET table == tables["amd"]
        hits ==
            IF directory # None /\ directory[1] # <<>>
            THEN {e \in Range(table.entries) :
                     e.directory = Some(normpath(directory[1]))}
            ELSE IF stream = None
            THEN {e \in Range(table.entries) : e.file = Some(FormatOpt(path))}
            ELSE {e \in Range(table.entries) :
                     /\ e.file = Some(FormatOpt(path))
                     /\ e.stream = Some(ToStr(stream[1]))}
    IN  IF table.exists THEN {e.id : e \in hits} ELSE {}

\* get_amd_references(workspace, path, stream, directory)
get_amd_references(tables, path, stream, directory) ==
    LET table == tables["amd"]
        hits ==
            IF directory # None /\ directory[1] # <<>>
            THEN {e \in Range(table.entries) :
                     e.directory = Some(normpath(directory[1]))}
            ELSE IF stream = None
            THEN {e \in Range(table.entries) :
                     e.file = Some(FormatOpt(path)) /\ e.stream = None}
            ELSE {e \in Range(table.entries) :
                     /\ e.file = Some(FormatOpt(path))
                     /\ e.stream = Some(ToStr(stream[1]))}
    IN  IF table.exists THEN {e.id : e \in hits} ELSE {}

\* get_amd_references for a logical target
lookup(tables, target) ==
    CASE target.kind = "directory" ->
             get_amd_references(tables, None, None, Some(target.path))
      [] target.kind = "file" ->
             get_amd_references(tables, Some(target.path), None, None)
      [] OTHER ->
             get_amd_references(tables, Some(target.path), target.stream,
                                None)

\* identity of a target: normalized path for a directory
NormTarget(t) ==
    IF t.kind = "directory" THEN DirT(normpath(t.path)) ELSE t

-----------------------------------------------------------------------------
(* METS elements (constructors of the mets library) *)

DIRECTORY == <<"d", "i", "r", "e", "c", "t", "o", "r", "y">>
FILE == <<"f", "i", "l", "e">>
DMDSEC_XML == <<"d", "m", "d", "s", "e", "c", ".", "x", "m", "l">>
FILE_URL == <<"f", "i", "l", "e", ":", "/", "/">>

\* mets.fptr(fileid)
Fptr(fileid) ==
    [tag |-> "fptr", fileid |-> Some(fileid), type |-> None, label |-> None,
     order |-> None, dmdid |-> <<>>, admid |-> {}, children |-> <<>>]

\* mets.div(type_attr, label, order, dmdid, admid) with its children
Div(type_attr, label, order, dmdid, admid, children) ==
    [tag |-> "div", fileid |-> None, type |-> Some(type_attr),
     label |-> label, order |-> order, dmdid |-> dmdid, admid |-> admid,
     children |-> children]

\* an operation's outcome: the exception raised ("" if none) and the value
Ok(v) == [err |-> "", val |-> v]
Raise(e) == [err |-> e, val |-> None]

-----------------------------------------------------------------------------
(* Directory tree *)

\* siptools.utils.tree(): an empty ordered mapping name -> subtree
tree == <<>>

RECURSIVE add(_,_)
\* siptools.utils.add(t, keys): one level per key, created on first use
add(t, keys) ==
    IF keys = <<>> THEN t
    ELSE LET k == Head(keys)
             at == {i \in 1..Len(t) : t[i].name = k}
         IN  IF at = {}
             THEN Append(t, [name |-> k, sub |-> add(tree, Tail(keys))])
             ELSE LET i == CHOOSE j \in at : TRUE
                  IN  [t EXCEPT ![i].sub = add(@, Tail(keys))]

RECURSIVE div_structure_from(_,_)
div_structure_from(paths, divs) ==
    IF paths = <<>> THEN divs
    ELSE div_structure_from(Tail(paths),
                            add(divs, Split(Head(paths), SLASH)))

\* div_structure(filelist)
div_structure(paths) == div_structure_from(paths, tree)

-----------------------------------------------------------------------------
(* fileSec *)

\* '_' + str(uuid4()): the n-th value drawn is new
NewFileId(n) == [uuid |-> n]

\* get_objectlist(workspace, path): the streams of a file, read from the
\* reference table
get_streams(tables, path) ==
    LET found == {e \in Range(tables["amd"].entries) :
                     e.file = Some(path) /\ e.stream # None}
    IN  {n \in 0..3 : \E e \in found : e.stream = Some(ToStr(n))}

RECURSIVE StreamElements(_,_,_)
\* one mets.stream element per stream, in ascending order
StreamElements(tables, path, streams) ==
    IF streams = {} THEN <<>>
    ELSE LET n == CHOOSE m \in streams : \A k \in streams : m <= k
         IN  <<[admid |-> get_amd_references(tables, Some(path), Some(n),
                                             None)]>>
             \o StreamElements(tables, path, streams \ {n})

\* add_file_to_filesec with an id that is not new
add_file_to_filesec_same_id(tables, path, filegrp, n) ==
    [fileid |-> NewFileId(0),
     filegrp |-> Append(filegrp,
         [ID |-> NewFileId(0),
          admid |-> get_amd_references(tables, Some(path), None, None),
          href |-> FILE_URL \o encode_path(path, {SLASH}),
          streams |-> StreamElements(tables, path,
                                     get_streams(tables, path))])]

\* add_file_to_filesec that escapes the path separator as well
add_file_to_filesec_quote_all(tables, path, filegrp, n) ==
    [fileid |-> NewFileId(n + 1),
     filegrp |-> Append(filegrp,
         [ID |-> NewFileId(n + 1),
          admid |-> get_amd_references(tables, Some(path), None, None),
          href |-> FILE_URL \o encode_path(path, {}),
          streams |-> StreamElements(tables, path,
                                     get_streams(tables, path))])]

\* add_file_to_filesec(workspace, path, filegrp), n uuids drawn before it
add_file_to_filesec(tables, path, filegrp, n) ==
    [fileid |-> NewFileId(n + 1),
     filegrp |-> Append(filegrp,
         [ID |-> NewFileId(n + 1),
          admid |-> get_amd_references(tables, Some(path), None, None),
          href |-> FILE_URL \o encode_path(path, {SLASH}),
          streams |-> StreamElements(tables, path,
                                     get_streams(tables, path))])]

RECURSIVE create_filegrp(_,_,_,_)
\* create_filegrp(workspace, filegrp, filelist)
create_filegrp(tables, filegrp, paths, n) ==
    IF paths = <<>> THEN filegrp
    ELSE create_filegrp(tables,
             add_file_to_filesec(tables, Head(paths), filegrp, n).filegrp,
             Tail(paths), n + 1)

\* create_filesec(workspace, filelist): the children of the fileGrp
create_filesec(tables, paths, n) == create_filegrp(tables, <<>>, paths, n)

\* get_fileid(filesec, path): the first file element with the path's href
get_fileid(fsec, path) ==
    LET href == FILE_URL \o encode_path(path, {SLASH})
        at == {i \in 1..Len(fsec) : fsec[i].href = href}
    IN  IF at = {} THEN Raise("IndexError")
        ELSE Ok(fsec[CHOOSE i \in at : \A j \in at : i <= j].ID)

-----------------------------------------------------------------------------
(* structMap, filesystem strategy *)

\* The workspace as the structmap stage reads it: the reference tables, the
\* scraper pickles and the file names in scandir order.
Workspace(tables, pkl, names) ==
    [tables |-> tables, pkl |-> pkl, names |-> names]

\* contents of a <id>-scraper.pkl file: file_metadata_dict[0]
PklNoProperties == [properties |-> None]
PklNoOrder == [properties |-> Some([order |-> None])]
PklOrder(n) == [properties |-> Some([order |-> Some(n)])]

\* add_file_properties(workspace, path, fptr); amdref is the element
\* next(iter(...)) takes from the set of the file's references
add_file_properties(ws, path, fptr, pick) ==
    LET refs == get_amd_references(ws.tables, Some(path), None, None)
    IN  IF refs = {} THEN Raise("StopIteration")
        ELSE LET pkl == ws.pkl[Tail(pick[path])]
             IN  IF pkl = None THEN Ok(None)
                 ELSE IF pkl[1].properties = None THEN Ok(None)
                 ELSE IF pkl[1].properties[1].order # None
                 THEN Ok(Some(Div(FILE, None, pkl[1].properties[1].order,
                                  <<>>, {}, <<fptr>>)))
                 ELSE Ok(None)

RECURSIVE SelectSeq2(_,_,_)
\* [x for x in names if keep(x)], as a sequence of encode_id(x)
SelectSeq2(names, a, b) ==
    IF names = <<>> THEN <<>>
    ELSE (IF Contains(a, Head(names)) /\ ~Contains(b, Head(names))
          THEN <<encode_id(Head(names))>> ELSE <<>>)
         \o SelectSeq2(Tail(names), a, b)

\* ids_for_files(workspace, path, idtype) for a non-empty path
ids_for_files(names, path, idtype) ==
    SelectSeq2(SelectSeq(names, LAMBDA x : Contains(idtype, x)),
               encode_path(path, {}), path \o <<"%", "2", "F">>)

RECURSIVE create_div(_,_,_,_,_,_,_), create_div_loop(_,_,_,_,_,_,_,_,_)

\* create_div with the sub-directory divs appended before the file pointers
create_div_divs_first(ws, divs, fsec, paths, path, type_attr, pick) ==
    LET r == create_div_loop(ws, divs, 1, fsec, paths, path, type_attr, pick,
                 [err |-> "", fptr_list |-> <<>>, property_list |-> <<>>,
                  div_list |-> <<>>])
    IN  IF r.err # "" THEN Raise(r.err)
        ELSE Ok(r.div_list \o r.fptr_list \o r.property_list)

\* create_div(workspace, divs, parent, filesec, filelist, path, type_attr):
\* the children appended to parent
create_div(ws, divs, fsec, paths, path, type_attr, pick) ==
    LET r == create_div_loop(ws, divs, 1, fsec, paths, path, type_attr, pick,
                 [err |-> "", fptr_list |-> <<>>, property_list |-> <<>>,
                  div_list |-> <<>>])
    IN  IF r.err # "" THEN Raise(r.err)
        ELSE Ok(r.fptr_list \o r.property_list \o r.div_list)

\* the loop of create_div over divs.keys(), from the i-th key on
create_div_loop(ws, divs, i, fsec, paths, path, type_attr, pick, acc) ==
    IF i > Len(divs) \/ acc.err # "" THEN acc
    ELSE
    LET div == divs[i].name
        div_path == path_join(path, div)
    IN
    IF div_path \in Range(paths)
    THEN LET fid == get_fileid(fsec, div_path)
             fptr == Fptr(fid.val)
             div_el == add_file_properties(ws, div_path, fptr, pick)
         IN  IF fid.err # "" THEN [acc EXCEPT !.err = fid.err]
             ELSE IF div_el.err # "" THEN [acc EXCEPT !.err = div_el.err]
             ELSE IF div_el.val # None
             THEN create_div_loop(ws, divs, i + 1, fsec, paths, path,
                      type_attr, pick,
                      [acc EXCEPT !.property_list = Append(@, div_el.val[1])])
             ELSE create_div_loop(ws, divs, i + 1, fsec, paths, path,
                      type_attr, pick,
                      [acc EXCEPT !.fptr_list = Append(@, fptr)])
    ELSE LET amdids == get_amd_references(ws.tables, None, None,
                                          Some(div_path))
             dmdsec_id == ids_for_files(ws.names, div_path, DMDSEC_XML)
             sub == create_div(ws, divs[i].sub, fsec, paths, div_path,
                               type_attr, pick)
             div_el ==
                 IF type_attr = Some("Directory-physical")
                 THEN Div(DIRECTORY, Some(div), None, dmdsec_id, amdids,
                          sub.val)
                 ELSE Div(div, None, None, dmdsec_id, amdids, sub.val)
         IN  IF sub.err # "" THEN [acc EXCEPT !.err = sub.err]
             ELSE create_div_loop(ws, divs, i + 1, fsec, paths, path,
                      type_attr, pick,
                      [acc EXCEPT !.div_list = Append(@, div_el)])

\* create_structmap that types the root div 'directory' whatever root_type
create_structmap_no_root_type(ws, fsec, paths, type_attr, root_type, pick) ==
    LET dmdids == IF DMDSEC_XML \in Range(ws.names)
                  THEN <<encode_id(DMDSEC_XML)>> ELSE <<>>
        amdids == get_amd_references(ws.tables, None, None, Some(<<".">>))
        r == create_div(ws, div_structure(paths), fsec, paths, <<>>,
                        type_attr, pick)
        container_div ==
            IF type_attr = Some("Directory-physical")
            THEN Div(DIRECTORY, Some(<<".">>), None, dmdids, amdids, r.val)
            ELSE Div(DIRECTORY, None, None, dmdids, amdids, r.val)
    IN  IF r.err # "" THEN Raise(r.err)
        ELSE Ok([type |-> type_attr, div |-> container_div])

\* create_structmap that derives the descriptive id from the object list
create_structmap_id_of_run(ws, fsec, paths, type_attr, root_type, pick) ==
    LET dmdids == IF DMDSEC_XML \in Range(ws.names)
                  THEN <<encode_id(IF paths = <<>> THEN DMDSEC_XML
                                   ELSE Head(paths))>>
                  ELSE <<>>
        amdids == get_amd_references(ws.tables, None, None, Some(<<".">>))
        r == create_div(ws, div_structure(paths), fsec, paths, <<>>,
                        type_attr, pick)
        container_div ==
            IF type_attr = Some("Directory-physical")
            THEN Div(DIRECTORY, Some(<<".">>), None, dmdids, amdids, r.val)
            ELSE Div(IF root_type # None /\ root_type[1] # <<>>
                     THEN root_type[1] ELSE DIRECTORY,
                     None, None, dmdids, amdids, r.val)
    IN  IF r.err # "" THEN Raise(r.err)
        ELSE Ok([type |-> type_attr, div |-> container_div])

\* create_structmap(workspace, filesec, filelist, type_attr, root_type):
\* the structMap's TYPE and its root div
create_structmap(ws, fsec, paths, type_attr, root_type, pick) ==
    LET dmdids == IF DMDSEC_XML \in Range(ws.names)
                  THEN <<encode_id(DMDSEC_XML)>> ELSE <<>>
        amdids == get_amd_references(ws.tables, None, None, Some(<<".">>))
        r == create_div(ws, div_structure(paths), fsec, paths, <<>>,
                        type_attr, pick)
        container_div ==
            IF type_attr = Some("Directory-physical")
            THEN Div(DIRECTORY, Some(<<".">>), None, dmdids, amdids, r.val)
            ELSE Div(IF root_type # None /\ root_type[1] # <<>>
                     THEN root_type[1] ELSE DIRECTORY,
                     None, None, dmdids, amdids, r.val)
    IN  IF r.err # "" THEN Raise(r.err)
        ELSE Ok([type |-> type_attr, div |-> container_div])

-----------------------------------------------------------------------------
(* Reference hand-off between a metadata stage and the structmap stage *)

PA == <<"a">>
PAB == <<"a", "/", "b">>

\* the targets the metadata stages describe
RefTargets == {FileT(PAB), StreamT(PAB, 0), DirT(PA)}

\* the targets the structmap stage looks up
QueryTargets ==
    RefTargets \cup {StreamT(PAB, 1), FileT(PA), DirT(PAB),
                     DirT(<<"a", "/">>), DirT(<<".", "/", "a">>)}

\* number of references buffered or persisted so far
RefCount ==
    LET n(c) == Len(refTables[c].entries)
    IN  Len(refBuffer) + n("amd") + n("md") + n("techmd")

\* values of the variables a specification does not use
IdleStructmap ==
    /\ filelist = <<>>
    /\ scraper = [i \in {Tail(id) : id \in RecordIds} |-> None]
    /\ wsNames = <<>>
    /\ structType = None
    /\ rootType = None
    /\ filesec = <<>>
    /\ structmap = None
    /\ uuidCount = 0
    /\ outFiles = {}
    /\ err = ""

\* no compile_mets run and no finding aid
IdleCompile ==
    /\ wsFiles = {}
    /\ opts = <<>>
    /\ scanned = <<>>
    /\ metsDoc = <<>>

IdleEad == ead = <<>>

\* no utility function called on its own
IdleCall == call = <<>>

IdleReferences ==
    /\ refBuffer = <<>>
    /\ refCategory = None
    /\ written = {}
    /\ lookupQuery = None
    /\ lookupResult = {}

RefInit ==
    /\ IdleStructmap
    /\ IdleReferences
    /\ IdleCompile
    /\ IdleEad
    /\ IdleCall
    /\ refTables = [c \in Categories |-> NoTable]
    /\ pc = "idle"

structmapVars == <<filelist, scraper, wsNames, structType, rootType, filesec,
                   structmap, uuidCount, outFiles, err, compileVars, ead,
                   call>>

\* a metadata stage starts: its creator writes the table of one category
NewCreator(category) ==
    /\ pc = "idle"
    /\ RefCount < MaxRefs
    /\ pc' = "buffering"
    /\ refCategory' = Some(category)
    /\ refBuffer' = <<>>
    /\ lookupQuery' = None
    /\ lookupResult' = {}
    /\ UNCHANGED <<structmapVars, refTables, written>>

AddReference(id, target) ==
    /\ pc = "buffering"
    /\ RefCount < MaxRefs
    /\ refBuffer' = add_reference(refBuffer, id, target)
    /\ UNCHANGED <<structmapVars, refTables, written, lookupQuery,
                   lookupResult, pc, refCategory>>

WriteReferences ==
    /\ pc = "buffering"
    /\ refTables' = write_references(refTables, refCategory[1], refBuffer)
    /\ written' = written \cup
           {[id |-> r.id, target |-> NormTarget(r.target)] :
               r \in Range(refBuffer)}
    /\ refBuffer' = <<>>
    /\ refCategory' = None
    /\ lookupQuery' = None
    /\ lookupResult' = {}
    /\ pc' = "idle"
    /\ UNCHANGED structmapVars

\* the structmap stage, run after the metadata stages, looks a target up
Lookup(target) ==
    /\ pc = "idle"
    /\ lookupQuery' = Some(target)
    /\ lookupResult' = lookup(refTables, target)
    /\ UNCHANGED <<structmapVars, refTables, written, refBuffer,
                   refCategory, pc>>

RefNext ==
    \/ \E c \in Categories : NewCreator(c)
    \/ \E id \in RecordIds, t \in RefTargets : AddReference(id, t)
    \/ WriteReferences
    \/ \E t \in QueryTargets : Lookup(t)

SpecRef == RefInit /\ [][RefNext]_vars

-----------------------------------------------------------------------------
(* Properties of the reference hand-off *)

\* the record ids persisted for the target of the last lookup
WrittenFor(target) ==
    {w.id : w \in {x \in written : x.target = NormTarget(target)}}

\* C3: after a stage buffers references with add_reference and persists
\* them with write, the structmap stage's lookup of a target returns exactly
\* the set of all record ids written for that target.
C3_LookupReturnsWritten ==
    lookupQuery # None => lookupResult = WrittenFor(lookupQuery[1])

\* the entry matches the looked-up target exactly, kind included
MatchesExactly(e, target) ==
    CASE target.kind = "directory" ->
             /\ e.directory = Some(normpath(target.path))
             /\ e.file = None
             /\ e.stream = None
      [] target.kind = "file" ->
             /\ e.file = Some(target.path)
             /\ e.stream = None
      [] OTHER ->
             /\ e.file = Some(target.path)
             /\ e.stream = Some(ToStr(target.stream[1]))

\* C4: a lookup returns only ids of entries of the table it reads whose
\* discriminator matches the target exactly: a directory lookup those with
\* the normalized directory and no file or stream attribute, a file lookup
\* those with the file and no stream attribute, a stream lookup those with
\* that file and that stream; and it returns the id of every such entry.
C4_ExactDiscriminators ==
    lookupQuery # None =>
        LET entries == Range(refTables["amd"].entries)
        IN  /\ \A id \in lookupResult :
                   \E e \in entries :
                       e.id = id /\ MatchesExactly(e, lookupQuery[1])
            /\ \A e \in entries :
                   MatchesExactly(e, lookupQuery[1]) => e.id \in lookupResult

\* a file lookup returned the file's record while the table also holds a
\* stream entry of the same file and a directory entry, under another id
C4_Witness ==
    /\ lookupQuery = Some(FileT(PAB))
    /\ lookupResult = {ID1}
    /\ \E e \in Range(refTables["amd"].entries) :
           e.id = ID2 /\ e.file = Some(PAB) /\ e.stream # None
    /\ \E e \in Range(refTables["amd"].entries) :
           e.id = ID2 /\ e.directory # None

-----------------------------------------------------------------------------
(* compile_structmap.main, filesystem strategy *)

\* object paths of the model, in sorted order
PathPool == << <<"a">>, <<"a", "/", "a">>, <<"a", "/", "b">>, <<"b">> >>

RECURSIVE Pick(_,_,_)
\* the subsequence of s at the indices in idx
Pick(s, idx, i) ==
    IF i > Len(s) THEN <<>>
    ELSE (IF i \in idx THEN <<s[i]>> ELSE <<>>) \o Pick(s, idx, i + 1)

\* the sorted object lists get_objectlist can return
FileLists ==
    {Pick(PathPool, idx, 1) :
        idx \in {x \in SUBSET (1..Len(PathPool)) : Cardinality(x) <= MaxFiles}}

\* explicit order values of the scraper pickles
Orders == {1, 2}

PklValues ==
    {None, Some(PklNoProperties), Some(PklNoOrder)}
        \cup {Some(PklOrder(n)) : n \in Orders}

PklStems == {Tail(id) : id \in RecordIds}

RECURSIVE FileReferences(_,_,_)
\* the table entries of the files: file i is described by the records imp[i]
FileReferences(paths, imp, i) ==
    IF i > Len(paths) THEN <<>>
    ELSE (IF ID1 \in imp[i]
          THEN <<ReferenceElement([id |-> ID1, target |-> FileT(paths[i])])>>
          ELSE <<>>)
         \o (IF ID2 \in imp[i]
             THEN <<ReferenceElement([id |-> ID2,
                                      target |-> FileT(paths[i])])>>
             ELSE <<>>)
         \o FileReferences(paths, imp, i + 1)

\* a table with the given entries, absent when there are none
TableOf(entries) ==
    [c \in Categories |->
        IF c = "amd" /\ entries # <<>>
        THEN [exists |-> TRUE, entries |-> entries] ELSE NoTable]

\* the choices next(iter(...)) can make in add_file_properties
PickChoices(tables, paths) ==
    {f \in [Range(paths) -> RecordIds] :
        \A q \in Range(paths) :
            LET refs == get_amd_references(tables, Some(q), None, None)
            IN  IF refs = {} THEN f[q] = ID1 ELSE f[q] \in refs}

FSInit ==
    /\ IdleReferences
    /\ IdleCompile
    /\ IdleEad
    /\ IdleCall
    /\ filelist \in FileLists
    /\ \E imp \in [1..Len(filelist) -> SUBSET RecordIds] :
           refTables = TableOf(FileReferences(filelist, imp, 1))
    /\ scraper \in [PklStems -> PklValues]
    /\ wsNames \in {<<>>, <<DMDSEC_XML>>}
    /\ structType \in {Some("Directory-physical"), Some("Fairdata-physical")}
    /\ rootType = None
    /\ filesec = <<>>
    /\ structmap = None
    /\ uuidCount = 0
    /\ outFiles = {}
    /\ err = ""
    /\ pc = "start"

inputVars == <<filelist, refTables, scraper, wsNames, structType, rootType>>
referenceVars == <<refBuffer, refCategory, written, lookupQuery, lookupResult>>
fsFrame == <<inputVars, referenceVars, compileVars, ead, call>>

\* main, lines 65: filesec = create_filesec(workspace, filelist)
CreateFilesec ==
    /\ pc = "start"
    /\ structType # Some("EAD3-logical")
    /\ filesec' = create_filesec(refTables, filelist, uuidCount)
    /\ uuidCount' = uuidCount + Len(filelist)
    /\ pc' = "filesec"
    /\ UNCHANGED <<fsFrame, structmap, outFiles, err>>

\* main, line 66: structmap = create_structmap(...); an exception ends main
CreateStructmap ==
    /\ pc = "filesec"
    /\ \E pick \in PickChoices(refTables, filelist) :
         LET r == create_structmap(Workspace(refTables, scraper, wsNames),
                      filesec, filelist, structType, rootType, pick)
         IN  IF r.err = ""
             THEN /\ structmap' = Some(r.val)
                  /\ pc' = "structmap"
                  /\ err' = err
             ELSE /\ structmap' = structmap
                  /\ pc' = "failed"
                  /\ err' = r.err
    /\ UNCHANGED <<fsFrame, filesec, uuidCount, outFiles>>

\* main, lines 73-91: structmap.xml and filesec.xml are written
WriteOutput ==
    /\ pc = "structmap"
    /\ outFiles' = outFiles \cup {"structmap.xml", "filesec.xml"}
    /\ pc' = "done"
    /\ UNCHANGED <<fsFrame, filesec, structmap, uuidCount, err>>

FSNext == CreateFilesec \/ CreateStructmap \/ WriteOutput

SpecFS == FSInit /\ [][FSNext]_vars

-----------------------------------------------------------------------------
(* Properties of the filesystem strategy *)

RECURSIVE FptrIds(_), FptrIdsOfAll(_)
\* the file ids of the file pointers under an element, in document order
FptrIds(el) ==
    IF el.tag = "fptr" THEN el.fileid ELSE FptrIdsOfAll(el.children)
FptrIdsOfAll(els) ==
    IF els = <<>> THEN <<>> ELSE FptrIds(Head(els)) \o FptrIdsOfAll(Tail(els))

RECURSIVE DivsOf(_), DivsOfAll(_)
\* the div elements at and under an element
DivsOf(el) ==
    IF el.tag = "div" THEN {el} \cup DivsOfAll(el.children) ELSE {}
DivsOfAll(els) ==
    IF els = <<>> THEN {} ELSE DivsOf(Head(els)) \cup DivsOfAll(Tail(els))

\* the positions at which the fileSec holds an entry with the id
EntriesWithId(fid) == {i \in 1..Len(filesec) : filesec[i].ID = fid}

\* the href the fileSec entry of a path carries
HrefOf(path) == FILE_URL \o encode_path(path, {SLASH})

\* create_filesec has run
FilesecBuilt == pc \in {"filesec", "structmap", "done", "failed"}

\* C1: after create_filesec and create_structmap, every file pointer of the
\* structMap carries an id that occurs exactly once among the fileSec
\* entries, the fileSec holds one entry per listed path, and the ids of
\* the entries are pairwise distinct.
C1_PointersResolve ==
    /\ FilesecBuilt =>
          /\ Len(filesec) = Len(filelist)
          /\ \A i \in 1..Len(filelist) : filesec[i].href = HrefOf(filelist[i])
          /\ \A i, j \in 1..Len(filesec) :
                 filesec[i].ID = filesec[j].ID => i = j
    /\ structmap # None =>
          \A fid \in Range(FptrIds(structmap[1].div)) :
              Cardinality(EntriesWithId(fid)) = 1

\* three listed files, each with its pointer, some of them in a directory div
C1_Witness ==
    /\ pc = "done"
    /\ Len(filelist) = 3
    /\ Len(FptrIds(structmap[1].div)) = 3
    /\ \E d \in DivsOf(structmap[1].div) :
           d # structmap[1].div /\ d.order = None

\* 1 for a bare file pointer, 2 for an ordering-wrapped file div, 3 for a
\* sub-directory div
SiblingKind(el) ==
    IF el.tag = "fptr" THEN 1 ELSE IF el.order # None THEN 2 ELSE 3

\* the children of a div come grouped: pointers, ordering divs, directories
GroupedSiblings(d) ==
    \A i, j \in 1..Len(d.children) :
        i < j => SiblingKind(d.children[i]) <= SiblingKind(d.children[j])

\* the position in the object list of the file an ordering div wraps
ListPosition(el) ==
    CHOOSE i \in 1..Len(filesec) : filesec[i].ID = el.children[1].fileid[1]

\* C5 as stated: within every div, bare file pointers come first, then the
\* ordering-wrapped file divs sorted by their explicit order value, then the
\* sub-directory divs.
C5_SortedByOrderValue ==
    structmap # None =>
        \A d \in DivsOf(structmap[1].div) :
            /\ d.order = None => GroupedSiblings(d)
            /\ \A i, j \in 1..Len(d.children) :
                   /\ i < j
                   /\ SiblingKind(d.children[i]) = 2
                   /\ SiblingKind(d.children[j]) = 2
                   => d.children[i].order[1] <= d.children[j].order[1]

\* C5 amended: within every div, bare file pointers come first, then the
\* ordering-wrapped file divs in the order of their files in the object list,
\* each carrying its explicit order value, then the sub-directory divs.
C5_InsertionOrder ==
    structmap # None =>
        \A d \in DivsOf(structmap[1].div) :
            /\ d.order = None => GroupedSiblings(d)
            /\ \A i, j \in 1..Len(d.children) :
                   /\ i < j
                   /\ SiblingKind(d.children[i]) = 2
                   /\ SiblingKind(d.children[j]) = 2
                   => ListPosition(d.children[i]) < ListPosition(d.children[j])
            /\ \A i \in 1..Len(d.children) :
                   SiblingKind(d.children[i]) = 2 =>
                       /\ Len(d.children[i].children) = 1
                       /\ d.children[i].children[1].tag = "fptr"
                       /\ d.children[i].order \in
                              {scraper[Tail(id)][1].properties[1].order :
                                  id \in {x \in filesec[ListPosition(
                                              d.children[i])].admid :
                                            /\ scraper[Tail(x)] # None
                                            /\ scraper[Tail(x)][1].properties
                                                   # None}}

\* a div holds two ordering divs whose order values descend, and the root
\* div holds a file of the root before a directory div although the
\* directory's files precede it in the object list
C5_Witness ==
    /\ structmap # None
    /\ \E d \in DivsOf(structmap[1].div) :
           \E i, j \in 1..Len(d.children) :
               /\ i < j
               /\ SiblingKind(d.children[i]) = 2
               /\ SiblingKind(d.children[j]) = 2
               /\ d.children[i].order[1] > d.children[j].order[1]
    /\ LET root == structmap[1].div
       IN  /\ Len(root.children) = 2
           /\ SiblingKind(root.children[1]) \in {1, 2}
           /\ SiblingKind(root.children[2]) = 3

\* p is a listed object and a strict prefix of another listed path
StructureConflict(paths) ==
    \E p, q \in Range(paths) : p # q /\ StartsWith(q, p \o <<SLASH>>)

\* C6: when a listed path is a leaf and a strict prefix of another listed
\* path, the structmap build fails with a StructureConflict error and emits
\* neither a structMap nor a fileSec fragment, and the build never produces
\* a structMap in which a listed path has no file pointer.
C6_ConflictFails ==
    /\ StructureConflict(filelist) /\ pc \in {"structmap", "done", "failed"}
           => pc = "failed" /\ err = "StructureConflict" /\ outFiles = {}
    /\ structmap # None =>
           \A i \in 1..Len(filelist) :
               filesec[i].ID \in Range(FptrIds(structmap[1].div))

-----------------------------------------------------------------------------
(* compile_mets: XML elements and workspace files *)

\* an XML element: tag, attributes as <<name, value>> pairs, children
El(tag, attrs, children) ==
    [tag |-> tag, attrs |-> attrs, children |-> children]

\* element.get(name): the attribute's value, None if it is not set
Attr(el, name) ==
    LET at == {i \in 1..Len(el.attrs) : el.attrs[i][1] = name}
    IN  IF at = {} THEN None ELSE Some(el.attrs[CHOOSE i \in at : TRUE][2])

\* a file of the workspace tree: directory below the workspace ('' for the
\* workspace itself), name, and parsed content (None when it is no XML)
WsFile(dir, name, content) ==
    [dir |-> dir, name |-> name, content |-> content]

\* a fragment file: a mets root wrapping one section
Fragment(name, section) ==
    WsFile(<<>>, name, Some(El("mets", <<>>, <<section>>)))

\* a section with an ID and children that carry their own IDs
Section(tag, id, kids) ==
    El(tag, << <<"ID", id>> >>, kids)
Child(tag, id) == El(tag, << <<"ID", id>> >>, <<>>)

AMD_XML == <<"-", "a", "m", "d", ".", "x", "m", "l">>
STRUCTMAP_XML == <<"s", "t", "r", "u", "c", "t", "m", "a", "p", ".", "x", "m", "l">>
FILESEC_XML == <<"f", "i", "l", "e", "s", "e", "c", ".", "x", "m", "l">>
RIGHTSMD_XML == <<"r", "i", "g", "h", "t", "s", "m", "d", ".", "x", "m", "l">>
MD_REFERENCES_XML == <<"m", "d", "-", "r", "e", "f", "e", "r", "e", "n", "c", "e", "s", ".", "x", "m", "l">>
SCRAPER_PKL == <<"-", "s", "c", "r", "a", "p", "e", "r", ".", "p", "k", "l">>
METS_XML == <<"m", "e", "t", "s", ".", "x", "m", "l">>

\* suffixes create_mets collects
FragmentSuffixes ==
    {AMD_XML, DMDSEC_XML, STRUCTMAP_XML, FILESEC_XML, RIGHTSMD_XML}

\* suffixes clean_metsparts removes
CleanSuffixes == FragmentSuffixes \cup {MD_REFERENCES_XML, SCRAPER_PKL}

\* name.endswith(tuple of suffixes)
EndsWithAny(name, suffixes) == \E suf \in suffixes : EndsWith(name, suf)

\* the fragment files the earlier stages can have written
FragmentPool ==
    {Fragment(<<"a">> \o AMD_XML,
              Section("amdSec", "_abc", <<Child("techMD", "t1"),
                                          Child("techMD", "t2")>>)),
     Fragment(<<"b">> \o AMD_XML,
              Section("amdSec", "_abc", <<Child("digiprovMD", "t3")>>)),
     Fragment(RIGHTSMD_XML,
              Section("amdSec", "_def", <<Child("rightsMD", "t4")>>)),
     Fragment(DMDSEC_XML,
              Section("dmdSec", "d1", <<Child("mdWrap", "m1")>>)),
     Fragment(<<"a", "-">> \o DMDSEC_XML,
              Section("dmdSec", "d2", <<Child("mdWrap", "m2")>>)),
     Fragment(FILESEC_XML,
              Section("fileSec", "f1", <<Child("fileGrp", "g1")>>)),
     Fragment(<<"a", "-">> \o FILESEC_XML,
              Section("fileSec", "f2", <<Child("fileGrp", "g2")>>)),
     Fragment(STRUCTMAP_XML,
              Section("structMap", "s1", <<Child("div", "v1")>>)),
     Fragment(<<"a", "-">> \o STRUCTMAP_XML,
              Section("structMap", "s2", <<Child("div", "v2")>>)),
     WsFile(<<>>, <<"c">> \o AMD_XML, None)}

\* other files of the workspace: reference tables, a scraper pickle, a
\* fragment in a sub-directory, a file with no recognized suffix
OtherFiles ==
    {WsFile(<<>>, <<"a">> \o MD_REFERENCES_XML, Some(El("amdReferences", <<>>, <<>>))),
     WsFile(<<>>, <<"t", "e", "c", "h">> \o MD_REFERENCES_XML,
            Some(El("techmdReferences", <<>>, <<>>))),
     WsFile(<<>>, <<"r", "1">> \o SCRAPER_PKL, None),
     WsFile(<<"s", "u", "b">>, <<"d">> \o AMD_XML,
            Some(El("mets", <<>>, <<Section("amdSec", "_sub", <<>>)>>))),
     WsFile(<<>>, <<"n", "o", "t", "e", "s">>, None)}

-----------------------------------------------------------------------------
(* create_mets *)

\* the agent elements of the header
Agents(organization, packagingservice) ==
    IF packagingservice # None /\ packagingservice[1] # ""
    THEN <<El("agent", << <<"ROLE", "ARCHIVIST">>,
                          <<"name", organization>> >>, <<>>),
           El("agent", << <<"ROLE", "CREATOR">>, <<"TYPE", "OTHER">>,
                          <<"OTHERTYPE", "SOFTWARE">>,
                          <<"name", packagingservice[1]>> >>, <<>>)>>
    ELSE <<El("agent", << <<"ROLE", "CREATOR">>,
                          <<"name", organization>> >>, <<>>)>>

\* mets.metshdr(createdate, lastmoddate, recordstatus, agents)
metshdr(organization, packagingservice) ==
    El("metsHdr", << <<"CREATEDATE", "t0">>, <<"RECORDSTATUS", "submission">> >>,
       Agents(organization, packagingservice))

\* the file of the workspace directory with the name
TopFile(files, name) ==
    CHOOSE f \in files : f.dir = <<>> /\ f.name = name

RECURSIVE scan_elements(_,_,_)
\* the scandir loop: the first child of the root of every file with a
\* recognized suffix, in scan order
scan_elements(files, scan, elements) ==
    IF scan = <<>> THEN Ok(elements)
    ELSE IF ~EndsWithAny(Head(scan), FragmentSuffixes)
    THEN scan_elements(files, Tail(scan), elements)
    ELSE LET f == TopFile(files, Head(scan))
         IN  IF f.content = None THEN Raise("XMLSyntaxError")
             ELSE IF f.content[1].children = <<>> THEN Raise("IndexError")
             ELSE scan_elements(files, Tail(scan),
                                Append(elements, f.content[1].children[1]))

RECURSIVE ChildrenOf(_)
\* the children of the elements, concatenated
ChildrenOf(els) ==
    IF els = <<>> THEN <<>>
    ELSE Head(els).children \o ChildrenOf(Tail(els))

RECURSIVE merge_elements(_,_)
\* mets.merge_elements(tag, elements): the elements with the tag are grouped
\* by ID, each group merged into its first element, children in scan order
merge_elements(tag, els) ==
    IF els = <<>> THEN <<>>
    ELSE LET h == Head(els)
             same(e) == e.tag = tag /\ Attr(e, "ID") = Attr(h, "ID")
         IN  IF h.tag # tag THEN <<h>> \o merge_elements(tag, Tail(els))
             ELSE <<[h EXCEPT !.children =
                        @ \o ChildrenOf(SelectSeq(Tail(els), same))]>>
                  \o merge_elements(tag,
                         SelectSeq(Tail(els), LAMBDA e : ~same(e)))

\* mets.order(element): position of the section in the METS schema
order(el) ==
    CASE el.tag = "dmdSec" -> 1
      [] el.tag = "amdSec" -> 2
      [] el.tag = "fileSec" -> 3
      [] el.tag = "structMap" -> 4
      [] OTHER -> 5

RECURSIVE InsertSorted(_,_)
\* e placed after the elements whose key is not greater
InsertSorted(sorted, e) ==
    IF sorted = <<>> THEN <<e>>
    ELSE IF order(Head(sorted)) <= order(e)
    THEN <<Head(sorted)>> \o InsertSorted(Tail(sorted), e)
    ELSE <<e>> \o sorted

RECURSIVE sort_by_order(_,_)
\* elements.sort(key=mets.order): a stable sort
sort_by_order(els, sorted) ==
    IF els = <<>> THEN sorted
    ELSE sort_by_order(Tail(els), InsertSorted(sorted, Head(els)))

\* the root element with the header and the sections appended
mets_document(header, elements) ==
    El("mets", << <<"PROFILE", "profile">>, <<"OBJID", "objid">>,
                  <<"CONTRACTID", "urn:uuid:contract">> >>,
       <<header>> \o elements)

\* create_mets without the call of merge_elements
create_mets_no_merge(files, scan, organization, packagingservice) ==
    LET r == scan_elements(files, scan, <<>>)
    IN  IF r.err # "" THEN r
        ELSE Ok(mets_document(metshdr(organization, packagingservice),
                              sort_by_order(r.val, <<>>)))

RECURSIVE LastOfEachKind(_)
\* of the sections that are no amdSec, only the last of each tag
LastOfEachKind(els) ==
    IF els = <<>> THEN <<>>
    ELSE (IF Head(els).tag # "amdSec"
             /\ \E i \in 1..Len(Tail(els)) : Tail(els)[i].tag = Head(els).tag
          THEN <<>> ELSE <<Head(els)>>)
         \o LastOfEachKind(Tail(els))

\* create_mets keeping, of several dmdSec, fileSec or structMap fragments,
\* the last scanned one
create_mets_last_wins(files, scan, organization, packagingservice) ==
    LET r == scan_elements(files, scan, <<>>)
    IN  IF r.err # "" THEN r
        ELSE Ok(mets_document(metshdr(organization, packagingservice),
                   sort_by_order(
                       LastOfEachKind(merge_elements("amdSec", r.val)),
                       <<>>)))

\* create_mets without elements.sort
create_mets_unsorted(files, scan, organization, packagingservice) ==
    LET r == scan_elements(files, scan, <<>>)
    IN  IF r.err # "" THEN r
        ELSE Ok(mets_document(metshdr(organization, packagingservice),
                              merge_elements("amdSec", r.val)))

\* create_mets(workspace, mets_attributes, metshdr_attributes, organization,
\* packagingservice), the scandir order being scan
create_mets(files, scan, organization, packagingservice) ==
    LET r == scan_elements(files, scan, <<>>)
    IN  IF r.err # "" THEN r
        ELSE Ok(mets_document(metshdr(organization, packagingservice),
                   sort_by_order(merge_elements("amdSec", r.val), <<>>)))

-----------------------------------------------------------------------------
(* compile_mets *)

\* largest number of fragment files in the workspace directory
MaxFrags == 3

\* os.path.dirname(source) and the file name of an object path
Dirname(path) ==
    LET parts == Split(path, SLASH)
    IN  Join(SubSeq(parts, 1, Len(parts) - 1), SLASH)
Basename(path) ==
    LET parts == Split(path, SLASH) IN parts[Len(parts)]

\* the (directory, name) pairs of the files
Keys(files) == {<<f.dir, f.name>> : f \in files}

\* WriteFile that empties the directory it writes to
WriteFile_empties_dir(files, f) ==
    {g \in files : g.dir # f.dir} \cup {f}

\* the files with f written, replacing a file of the same name
WriteFile(files, f) ==
    {g \in files : <<g.dir, g.name>> # <<f.dir, f.name>>} \cup {f}

RECURSIVE copy_objects(_,_)
\* copy_objects(workspace, data_dir): every listed object is copied to
\* workspace/<path>
copy_objects(files, paths) ==
    IF paths = <<>> THEN files
    ELSE copy_objects(
             WriteFile(files, WsFile(Dirname(Head(paths)),
                                     Basename(Head(paths)), None)),
             Tail(paths))

\* clean_metsparts that does not descend into sub-directories
clean_metsparts_top_only(files) ==
    {f \in files : ~(f.dir = <<>> /\ EndsWithAny(f.name, CleanSuffixes))}

\* clean_metsparts(path): os.walk removes every file with a listed suffix
clean_metsparts(files) ==
    {f \in files : ~EndsWithAny(f.name, CleanSuffixes)}

\* the orders in which scandir can return the names
ScanOrders(names) ==
    {q \in [1..Cardinality(names) -> names] :
        \A i, j \in 1..Cardinality(names) : q[i] = q[j] => i = j}

\* the names of the fragment files of the workspace directory
FragmentNames(files) ==
    {f.name : f \in {g \in files :
                        g.dir = <<>> /\ EndsWithAny(g.name, FragmentSuffixes)}}

\* --clean, --copy_files, whether base_path holds the objects, and
\* --packagingservice
CompileOptions ==
    [clean : BOOLEAN, copy_files : BOOLEAN, base_ok : BOOLEAN,
     packagingservice : {None, Some("service")}]

MetsInit ==
    /\ IdleReferences
    /\ IdleEad
    /\ IdleCall
    /\ refTables = [c \in Categories |-> NoTable]
    /\ scraper = [i \in PklStems |-> None]
    /\ wsNames = <<>>
    /\ structType = None
    /\ rootType = None
    /\ filesec = <<>>
    /\ structmap = None
    /\ uuidCount = 0
    /\ outFiles = {}
    /\ err = ""
    /\ filelist = <<PAB>>
    /\ \E frags \in {x \in SUBSET FragmentPool : Cardinality(x) <= MaxFrags},
          others \in {{}, OtherFiles} :
           wsFiles = frags \cup others
    /\ \E o \in CompileOptions :
           /\ (~o.copy_files => o.base_ok)
           /\ opts = Some(o)
    /\ scanned = <<>>
    /\ metsDoc = None
    /\ pc = "start"

metsFrame == <<filelist, refTables, scraper, wsNames, structType, rootType,
               filesec, structmap, uuidCount, outFiles, referenceVars, ead,
               call,
               opts>>

\* compile_mets, lines 117-129: create_mets; an exception ends the script
CreateMets ==
    /\ pc = "start"
    /\ \E scan \in ScanOrders(FragmentNames(wsFiles)) :
         LET r == create_mets(wsFiles, scan, "org", opts[1].packagingservice)
         IN  /\ scanned' = scan
             /\ IF r.err = ""
                THEN metsDoc' = Some(r.val) /\ pc' = "created" /\ err' = err
                ELSE metsDoc' = metsDoc /\ pc' = "failed" /\ err' = r.err
    /\ UNCHANGED <<metsFrame, wsFiles>>

\* compile_mets, lines 134-142: mets.xml is written
WriteMets ==
    /\ pc = "created"
    /\ wsFiles' = WriteFile(wsFiles, WsFile(<<>>, METS_XML, metsDoc))
    /\ pc' = "written"
    /\ UNCHANGED <<metsFrame, scanned, metsDoc, err>>

\* compile_mets, lines 144-146: the objects are copied if asked for
CopyObjects ==
    /\ pc = "written"
    /\ IF ~opts[1].copy_files
       THEN wsFiles' = wsFiles /\ pc' = "copied" /\ err' = err
       ELSE IF opts[1].base_ok
       THEN /\ wsFiles' = copy_objects(wsFiles, filelist)
            /\ pc' = "copied"
            /\ err' = err
       ELSE wsFiles' = wsFiles /\ pc' = "failed" /\ err' = "IOError"
    /\ UNCHANGED <<metsFrame, scanned, metsDoc>>

\* compile_mets, lines 148-150: the work files are removed if asked for
CleanMetsparts ==
    /\ pc = "copied"
    /\ wsFiles' = IF opts[1].clean THEN clean_metsparts(wsFiles) ELSE wsFiles
    /\ pc' = "done"
    /\ UNCHANGED <<metsFrame, scanned, metsDoc, err>>

MetsNext == CreateMets \/ WriteMets \/ CopyObjects \/ CleanMetsparts

SpecMets == MetsInit /\ [][MetsNext]_vars

-----------------------------------------------------------------------------
(* Properties of compile_mets *)

\* the section a scanned fragment file wraps
SectionOf(name) ==
    (CHOOSE f \in FragmentPool : f.name = name).content[1].children[1]

\* the sections of the scanned fragments with the tag, in scan order
ScannedSections(tag) ==
    LET secs == [i \in 1..Len(scanned) |-> SectionOf(scanned[i])]
    IN  SelectSeq(secs, LAMBDA e : e.tag = tag)

\* the sections of the compiled document with the tag, in document order
DocSections(tag) ==
    SelectSeq(metsDoc[1].children, LAMBDA e : e.tag = tag)

\* no element occurs twice in the sequence
NoDuplicates(q) == \A i, j \in 1..Len(q) : q[i] = q[j] => i = j

\* C2: the compiled document holds exactly one amdSec element per distinct
\* section id of the amdSec fragments, and that element's children are the
\* union of the children of all fragments sharing the id, each once.
C2_AmdSecMerged ==
    metsDoc # None =>
        LET frags == ScannedSections("amdSec")
            doc == DocSections("amdSec")
            ids == {Attr(e, "ID") : e \in Range(frags)}
        IN  /\ {Attr(e, "ID") : e \in Range(doc)} = ids
            /\ Len(doc) = Cardinality(ids)
            /\ \A e \in Range(doc) :
                   /\ NoDuplicates(e.children)
                   /\ Range(e.children) =
                          UNION {Range(g.children) :
                                    g \in {x \in Range(frags) :
                                              Attr(x, "ID") = Attr(e, "ID")}}

\* two fragments share the id _abc, a third one has the id _def
C2_Witness ==
    /\ metsDoc # None
    /\ Len(ScannedSections("amdSec")) = 3
    /\ Len(DocSections("amdSec")) = 2
    /\ \E e \in Range(DocSections("amdSec")) : Len(e.children) = 3

SingletonKinds == {"dmdSec", "fileSec", "structMap"}

\* C7 as stated: when the workspace holds more than one dmdSec (or fileSec,
\* or structMap) fragment, the compiled document holds exactly one section
\* of that kind, the one of the last-scanned fragment.
C7_LastScannedWins ==
    metsDoc # None =>
        \A kind \in SingletonKinds :
            LET frags == ScannedSections(kind)
            IN  Len(frags) > 1 => DocSections(kind) = <<frags[Len(frags)]>>

\* C7 amended: the compiled document holds one section of that kind per
\* fragment of that kind; every fragment's section is in it exactly once.
C7_AllKept ==
    metsDoc # None =>
        \A kind \in SingletonKinds :
            LET frags == ScannedSections(kind)
                doc == DocSections(kind)
            IN  /\ Len(doc) = Len(frags)
                /\ Range(doc) = Range(frags)
                /\ NoDuplicates(doc)

\* two dmdSec fragments were scanned and both are in the document
C7_Witness ==
    /\ metsDoc # None
    /\ Len(ScannedSections("dmdSec")) = 2
    /\ Len(DocSections("dmdSec")) = 2

\* the canonical position of a top-level section
CanonicalRank(tag) ==
    CASE tag = "dmdSec" -> 1
      [] tag = "amdSec" -> 2
      [] tag = "fileSec" -> 3
      [] tag = "structMap" -> 4

\* C10: in the document returned by create_mets the header comes first and
\* the sections follow in canonical order: every dmdSec before every amdSec,
\* every amdSec before the fileSec, the fileSec before the structMap.
C10_CanonicalOrder ==
    metsDoc # None =>
        LET kids == metsDoc[1].children
        IN  /\ kids[1].tag = "metsHdr"
            /\ \A i \in 2..Len(kids) :
                   kids[i].tag \in {"dmdSec", "amdSec", "fileSec", "structMap"}
            /\ \A i, j \in 2..Len(kids) :
                   i < j => CanonicalRank(kids[i].tag)
                                <= CanonicalRank(kids[j].tag)

\* the scan returned a structMap first, then an amdSec, then a dmdSec
C10_Witness ==
    /\ metsDoc # None
    /\ Len(scanned) = 3
    /\ SectionOf(scanned[1]).tag = "structMap"
    /\ SectionOf(scanned[2]).tag = "amdSec"
    /\ SectionOf(scanned[3]).tag = "dmdSec"

\* names of the fragment, reference-table and intermediate files
ReferenceTableNames ==
    {<<"a">> \o MD_REFERENCES_XML, MD_REFERENCES_XML,
     <<"t", "e", "c", "h">> \o MD_REFERENCES_XML}
IsWorkFile(f) ==
    \/ EndsWithAny(f.name, FragmentSuffixes)
    \/ f.name \in ReferenceTableNames
    \/ EndsWith(f.name, SCRAPER_PKL)

\* some file of the workspace is deleted by the step
FileDeleted == \E k \in Keys(wsFiles) : k \notin Keys(wsFiles')

\* after a compile with clean no work file is left and mets.xml is there
CleanedAtEnd ==
    pc = "done" /\ opts[1].clean =>
        /\ \A f \in wsFiles : ~IsWorkFile(f)
        /\ WsFile(<<>>, METS_XML, metsDoc) \in wsFiles

\* C8: work files are deleted only when clean is requested and only after
\* mets.xml has been written (so a compilation that fails before deletes
\* nothing), and after a successful compile with clean no fragment,
\* reference-table or intermediate file remains anywhere in the workspace
\* while mets.xml is present.
C8_CleanupLifecycle ==
    /\ []CleanedAtEnd
    /\ [][FileDeleted =>
             /\ opts[1].clean
             /\ metsDoc # None
             /\ WsFile(<<>>, METS_XML, metsDoc) \in wsFiles
             /\ pc' = "done"]_vars

\* a compile with clean and copy_files ended in a workspace that held
\* reference tables, a pickle and a fragment in a sub-directory
C8_Witness ==
    /\ pc = "done"
    /\ opts[1].clean
    /\ opts[1].copy_files
    /\ Len(scanned) = 3
    /\ WsFile(<<>>, <<"n", "o", "t", "e", "s">>, None) \in wsFiles
    /\ WsFile(<<"a">>, <<"b">>, None) \in wsFiles

-----------------------------------------------------------------------------
(* structMap, finding-aid strategy *)

MaxLinks == 2

LOGICAL == <<"l", "o", "g", "i", "c", "a", "l">>
ARCHDESC == <<"a", "r", "c", "h", "d", "e", "s", "c">>
Digits == <<"0", "1", "2", "3", "4", "5", "6", "7", "8", "9">>

RECURSIVE DecStr(_)
\* str(n) of a natural number
DecStr(n) ==
    IF n < 10 THEN <<Digits[n + 1]>>
    ELSE DecStr(n \div 10) \o <<Digits[(n % 10) + 1]>>

RECURSIVE ParseInt(_)
\* int(s) of a string of digits
ParseInt(s) ==
    IF s = <<>> THEN 0
    ELSE 10 * ParseInt(SubSeq(s, 1, Len(s) - 1))
         + ((CHOOSE d \in 1..10 : Digits[d] = s[Len(s)]) - 1)

\* a child of a did element: a dao with its href (if any), a daoset with the
\* hrefs of its dao children, or another element
Dao(href) == [name |-> "dao", hrefs |-> <<href>>]
Daoset(hrefs) == [name |-> "daoset", hrefs |-> hrefs]
Unittitle == [name |-> "unittitle", hrefs |-> <<>>]

\* a c element: its tag, level attributes, the children of its did and its
\* child c elements
Component(tag, level, otherlevel, did, subs) ==
    [tag |-> tag, level |-> level, otherlevel |-> otherlevel, did |-> did,
     subs |-> subs]

allowed_c_subs ==
    {<<"c">>} \cup {<<"c", "0", Digits[d + 1]>> : d \in 1..9}
        \cup {<<"c", "1", Digits[d + 1]>> : d \in 0..2}

\* ead3_c_div, lines 243-245, with the link used as the path when no path
\* of the list contains it
resolve_link_best_effort(href, paths) ==
    LET ead3_file == IF StartsWith(href, <<SLASH>>) THEN Tail(href) ELSE href
        found == SelectSeq(paths, LAMBDA x : Contains(ead3_file, x))
    IN  IF found = <<>> THEN Ok(ead3_file) ELSE Ok(found[1])

\* ead3_c_div, lines 243-245: the first path of the list that contains the
\* link, a leading '/' of the link left out
resolve_link(href, paths) ==
    LET ead3_file == IF StartsWith(href, <<SLASH>>) THEN Tail(href) ELSE href
        found == SelectSeq(paths, LAMBDA x : Contains(ead3_file, x))
    IN  IF found = <<>> THEN Raise("IndexError") ELSE Ok(found[1])

\* the loop state of ead3_c_div: the children collected for a div, the
\* fileGrp and the number of uuids drawn
LoopState(filegrp, n) ==
    [err |-> "", children |-> <<>>, filegrp |-> filegrp, n |-> n]

\* ead3_c_div, lines 247-248: a pointer to the added file is appended
append_fptr(acc, added) ==
    [acc EXCEPT !.children = Append(@, Fptr(added.fileid)),
                !.filegrp = added.filegrp,
                !.n = @ + 1]

\* ead3_c_div, lines 245-248: the resolved file is added to the fileGrp
add_link(acc, amd_file, tables) ==
    IF amd_file.err # "" THEN [acc EXCEPT !.err = amd_file.err]
    ELSE append_fptr(acc, add_file_to_filesec(tables, amd_file.val,
                                              acc.filegrp, acc.n))

RECURSIVE ead3_links(_,_,_,_,_)
\* ead3_c_div, lines 236-248: the loop over the children of the did, from
\* the i-th on
ead3_links(did, i, acc, tables, paths) ==
    IF i > Len(did) \/ acc.err # "" THEN acc
    ELSE IF did[i].name \notin {"dao", "daoset"}
    THEN ead3_links(did, i + 1, acc, tables, paths)
    ELSE IF did[i].hrefs = <<>> THEN [acc EXCEPT !.err = "IndexError"]
    ELSE ead3_links(did, i + 1,
             add_link(acc, resolve_link(did[i].hrefs[1], paths), tables),
             tables, paths)

\* structmap.append(c_div), line 250: the div built by a call is appended
append_div(acc, r) ==
    IF r.err # "" THEN [acc EXCEPT !.err = r.err]
    ELSE [acc EXCEPT !.children = @ \o r.children,
                     !.filegrp = r.filegrp,
                     !.n = r.n]

\* ead3_c_div, lines 224-229: str('0') + str(int(cnum) + 1)
cnum_sub(cnum) ==
    IF cnum # None /\ cnum[1] # <<>>
    THEN Some(<<"0">> \o DecStr(ParseInt(cnum[1]) + 1))
    ELSE None

\* ead3_c_div, lines 219-229 and 250: the div of the component with the
\* children collected by the two loops
c_div(parent, cnum, own) ==
    LET level == IF parent.otherlevel # None THEN parent.otherlevel
                 ELSE parent.level
        type_attr == IF cnum # None /\ cnum[1] # <<>>
                     THEN <<"c">> \o cnum[1] ELSE <<"c">>
    IN  IF level = None THEN [own EXCEPT !.err = "IndexError"]
        ELSE [own EXCEPT
                 !.children = <<Div(type_attr, level, None, <<>>, {}, @)>>]

RECURSIVE ead3_c_div(_,_,_,_,_,_), ead3_subs(_,_,_,_,_,_)

\* ead3_c_div(parent, structmap, filegrp, workspace, filelist, cnum): the div
\* appended to structmap, the fileGrp and the number of uuids drawn
ead3_c_div(parent, filegrp, tables, paths, cnum, n) ==
    c_div(parent, cnum,
          ead3_links(parent.did, 1,
              ead3_subs(parent.subs, 1, LoopState(filegrp, n), tables,
                        paths, cnum_sub(cnum)),
              tables, paths))

\* ead3_c_div, lines 231-234: the loop over the child elements
ead3_subs(subs, i, acc, tables, paths, cnum) ==
    IF i > Len(subs) \/ acc.err # "" THEN acc
    ELSE IF subs[i].tag \notin allowed_c_subs
    THEN ead3_subs(subs, i + 1, acc, tables, paths, cnum)
    ELSE ead3_subs(subs, i + 1,
             append_div(acc, ead3_c_div(subs[i], acc.filegrp, tables, paths,
                                        cnum, acc.n)),
             tables, paths, cnum)

\* create_ead3_structmap, lines 189-192: the last two characters of the tag
cnum_of(tag) ==
    IF Len(tag) > 1 THEN Some(SubSeq(tag, Len(tag) - 1, Len(tag))) ELSE None

RECURSIVE ead3_dsc(_,_,_,_,_)
\* create_ead3_structmap, lines 188-194: the loop over the children of dsc
ead3_dsc(comps, i, acc, tables, paths) ==
    IF i > Len(comps) \/ acc.err # "" THEN acc
    ELSE ead3_dsc(comps, i + 1,
             append_div(acc, ead3_c_div(comps[i], acc.filegrp, tables, paths,
                                        cnum_of(comps[i].tag), acc.n)),
             tables, paths)

\* create_ead3_structmap, lines 166-200: the structMap around the divs r
ead3_structmap(desc, ws, type_attr, r) ==
    LET level == IF desc.otherlevel # None THEN desc.otherlevel
                 ELSE desc.level
        dmdids == IF DMDSEC_XML \in Range(ws.names)
                  THEN <<encode_id(DMDSEC_XML)>> ELSE <<>>
        amdids == get_amd_references(ws.tables, None, None, Some(<<".">>))
        div_ead == Div(ARCHDESC, level, None, dmdids, amdids, r.children)
        container_div == Div(LOGICAL, None, None, <<>>, {}, <<div_ead>>)
    IN  IF level = None THEN Raise("IndexError")
        ELSE IF r.err # "" THEN Raise(r.err)
        ELSE Ok([structmap |-> [type |-> type_attr, div |-> container_div],
                 filegrp |-> r.filegrp,
                 n |-> r.n])

\* create_ead3_structmap(descfile, workspace, filegrp, filelist, type_attr):
\* the structMap and the fileGrp it has filled
create_ead3_structmap(desc, ws, filegrp, paths, type_attr, n) ==
    ead3_structmap(desc, ws, type_attr,
        IF desc.dsc # None
        THEN ead3_dsc(desc.dsc[1], 1, LoopState(filegrp, n), ws.tables,
                      paths)
        ELSE LoopState(filegrp, n))

-----------------------------------------------------------------------------
(* compile_structmap.main, finding-aid strategy *)

\* object paths of the model, in sorted order
EadPathPool ==
    << <<"a", "/", "b">>, <<"b">>, <<"x", "/", "a", "/", "b">> >>

EadFileLists ==
    {Pick(EadPathPool, idx, 1) :
        idx \in {x \in SUBSET (1..Len(EadPathPool)) :
                    Cardinality(x) <= MaxFiles}}

\* the children a did of the model can have
DidPool ==
    {Dao(<<"/", "a", "/", "b">>), Dao(<<"b">>), Dao(<<"c">>),
     Daoset(<< <<"a", "/", "b">>, <<"c">> >>), Daoset(<<>>), Unittitle}

\* the children of the three dids: at most MaxLinks of them altogether
DidChoices ==
    UNION {{<<d1, d2, d3>> : d1 \in [1..n[1] -> DidPool],
                            d2 \in [1..n[2] -> DidPool],
                            d3 \in [1..n[3] -> DidPool]} :
              n \in {m \in (0..MaxLinks) \X (0..MaxLinks) \X (0..MaxLinks) :
                        m[1] + m[2] + m[3] <= MaxLinks}}

\* the finding aid with one or two components under dsc, the first of them
\* with or without a nested component; dids[k] are the children of the did
\* of the k-th of these three components
FindingAid(dsc, sub, second, numbered, dids) ==
    LET nested == Component(IF numbered THEN <<"c", "0", "2">> ELSE <<"c">>,
                            Some(<<"f">>), None, dids[2], <<>>)
        first == Component(IF numbered THEN <<"c", "0", "1">> ELSE <<"c">>,
                           Some(<<"s">>), None, dids[1],
                           IF sub THEN <<nested>> ELSE <<>>)
        other == Component(IF numbered THEN <<"c", "0", "1">> ELSE <<"c">>,
                           Some(<<"o">>), Some(<<"r">>), dids[3], <<>>)
    IN  [level |-> Some(<<"c">>), otherlevel |-> None,
         dsc |-> IF dsc
                 THEN Some(IF second THEN <<first, other>> ELSE <<first>>)
                 ELSE None]

FindingAids ==
    {FindingAid(TRUE, sh[1], sh[2], sh[3], dids) :
        sh \in BOOLEAN \X BOOLEAN \X BOOLEAN,
        dids \in DidChoices}
        \cup {FindingAid(FALSE, FALSE, FALSE, FALSE, [k \in 1..3 |-> <<>>])}

EadInit ==
    /\ IdleReferences
    /\ IdleCompile
    /\ ead \in {Some(d) : d \in FindingAids}
    /\ IdleCall
    /\ filelist \in EadFileLists
    /\ refTables = TableOf(FileReferences(filelist,
                       [i \in 1..Len(filelist) |->
                           IF i = 1 THEN {ID1} ELSE {}], 1))
    /\ scraper = [i \in PklStems |-> None]
    /\ wsNames = <<DMDSEC_XML>>
    /\ structType = Some("EAD3-logical")
    /\ rootType = None
    /\ filesec = <<>>
    /\ structmap = None
    /\ uuidCount = 0
    /\ outFiles = {}
    /\ err = ""
    /\ pc = "start"

\* main, lines 54-63: an empty fileGrp is created and filled by
\* create_ead3_structmap; an exception ends main
CreateEad3Structmap ==
    /\ pc = "start"
    /\ structType = Some("EAD3-logical")
    /\ \E r \in {create_ead3_structmap(ead[1],
                     Workspace(refTables, scraper, wsNames), <<>>, filelist,
                     structType, uuidCount)} :
           IF r.err = ""
           THEN /\ structmap' = Some(r.val.structmap)
                /\ filesec' = r.val.filegrp
                /\ uuidCount' = r.val.n
                /\ pc' = "structmap"
                /\ err' = err
           ELSE /\ UNCHANGED <<structmap, filesec, uuidCount>>
                /\ pc' = "failed"
                /\ err' = r.err
    /\ UNCHANGED <<fsFrame, outFiles>>

EadNext == CreateEad3Structmap \/ WriteOutput

SpecEad == EadInit /\ [][EadNext]_vars

-----------------------------------------------------------------------------
(* Properties of the finding-aid strategy *)

RECURSIVE LinksOf(_)
\* the digital-object links (dao and daoset children of the did) of the
\* components and of the components nested in them
LinksOf(comps) ==
    IF comps = <<>> THEN <<>>
    ELSE SelectSeq(Head(comps).did, LAMBDA f : f.name \in {"dao", "daoset"})
         \o LinksOf(Head(comps).subs) \o LinksOf(Tail(comps))

EadLinks == IF ead[1].dsc = None THEN <<>> ELSE LinksOf(ead[1].dsc[1])

\* the link's reference without a leading '/' is part of some listed path
Matches(f) ==
    /\ f.hrefs # <<>>
    /\ LET ref == f.hrefs[1]
           rel == IF ref # <<>> /\ ref[1] = "/" THEN Tail(ref) ELSE ref
       IN  \E q \in Range(filelist) : Contains(rel, q)

-----------------------------------------------------------------------------
(* One run of either script *)

RunsInit == FSInit \/ EadInit \/ MetsInit

\* the run is a structmap build (either strategy) or a compile
RunsNext ==
    \/ opts = None /\ ead = None /\ FSNext
    \/ opts = None /\ ead # None /\ EadNext
    \/ opts # None /\ MetsNext

SpecRuns == RunsInit /\ [][RunsNext]_vars

\* where compile_mets may put a file: mets.xml and the listed objects
CompileTargets ==
    {<<<<>>, METS_XML>>}
        \cup {<<Dirname(filelist[i]), Basename(filelist[i])>> :
                 i \in 1..Len(filelist)}

\* C11: a structmap build and a compile without clean leave every fragment,
\* reference table and intermediate file of the workspace present and
\* unchanged; a structmap build writes only structmap.xml and filesec.xml,
\* a compile creates or overwrites only mets.xml and the copied objects.
C11_ReadNeverMutate ==
    [][/\ opts = None =>
             /\ refTables' = refTables
             /\ scraper' = scraper
             /\ wsNames' = wsNames
             /\ wsFiles' = wsFiles
             /\ outFiles \subseteq outFiles'
             /\ outFiles' \subseteq {"structmap.xml", "filesec.xml"}
       /\ (opts # None /\ ~opts[1].clean) =>
             /\ \A f \in wsFiles : IsWorkFile(f) => f \in wsFiles'
             /\ \A g \in wsFiles' \ wsFiles :
                    <<g.dir, g.name>> \in CompileTargets
             /\ \A f \in wsFiles \ wsFiles' :
                    <<f.dir, f.name>> \in CompileTargets
             /\ outFiles' = outFiles]_vars

\* a compile without clean has written mets.xml and copied the object a/b
\* into a workspace holding three fragments, reference tables and a pickle
C11_Witness ==
    /\ pc = "done"
    /\ opts # None
    /\ ~opts[1].clean
    /\ opts[1].copy_files
    /\ Len(scanned) = 3
    /\ OtherFiles \subseteq wsFiles
    /\ WsFile(<<>>, METS_XML, metsDoc) \in wsFiles
    /\ WsFile(<<"a">>, <<"b">>, None) \in wsFiles

-----------------------------------------------------------------------------
(* Utility functions called on their own *)

\* nothing but the call is going on
IdleRun ==
    /\ IdleStructmap
    /\ IdleReferences
    /\ IdleCompile
    /\ IdleEad
    /\ refTables = [c \in Categories |-> NoTable]

callFrame == <<filelist, refTables, refBuffer, scraper, wsNames, structType,
               rootType, filesec, structmap, uuidCount, outFiles, err,
               refCategory, written, lookupQuery, lookupResult, compileVars,
               ead>>

\* the sequences over S of length at most n
SeqsUpTo(S, n) == UNION {[1..k -> S] : k \in 0..n}

-----------------------------------------------------------------------------
(* Path codec of siptools.utils *)

\* longest path given to the codec
MaxLen == 3

\* characters that are written as an escape
Escaped == {"/", " ", "%", "?"}

RECURSIVE Unquote(_)
\* urllib.unquote(s): every %XX escape is replaced by its character
Unquote(s) ==
    IF s = <<>> THEN <<>>
    ELSE IF Len(s) >= 3 /\ \E c \in Escaped : PercentCode(c) = SubSeq(s, 1, 3)
    THEN <<CHOOSE c \in Escaped : PercentCode(c) = SubSeq(s, 1, 3)>>
         \o Unquote(SubSeq(s, 4, Len(s)))
    ELSE <<Head(s)>> \o Unquote(Tail(s))

\* encode_path(path, suffix, prefix): prefix + quote(path) + suffix
encode_path_affixed(path, suffix, prefix) ==
    prefix \o encode_path(path, {}) \o suffix

\* decode_path that does not take the suffix off
decode_path_keeps_suffix(id, suffix) == Unquote(id)

\* decode_path(path, suffix): the suffix is taken off the end, the rest is
\* percent-decoded
decode_path(id, suffix) ==
    Unquote(IF EndsWith(id, suffix)
            THEN SubSeq(id, 1, Len(id) - Len(suffix)) ELSE id)

CodecAlphabet == {"a", "/", "%", "-", "2", "F"}
CodecPaths == SeqsUpTo(CodecAlphabet, MaxLen)
CodecSuffixes == {<<>>, <<"-", "a">>, <<"%", "2", "F">>, <<"/">>}
CodecPrefixes == {<<>>, <<"a", "-">>, <<"/">>}

CodecInit ==
    /\ IdleRun
    /\ IdleCall
    /\ pc = "idle"

\* encode_path(path, suffix=suffix, prefix=prefix)
Encode ==
    /\ pc = "idle"
    /\ \E path \in CodecPaths, suffix \in CodecSuffixes,
          prefix \in CodecPrefixes :
           call' = Some([fn |-> "encode_path", path |-> path,
                         suffix |-> suffix, prefix |-> prefix,
                         id |-> encode_path_affixed(path, suffix, prefix),
                         decoded |-> None])
    /\ pc' = "encoded"
    /\ UNCHANGED callFrame

\* decode_path(id, suffix=suffix) of the id just computed
Decode ==
    /\ pc = "encoded"
    /\ call' = Some([call[1] EXCEPT
                        !.fn = "decode_path",
                        !.decoded = Some(decode_path(call[1].id,
                                                     call[1].suffix))])
    /\ pc' = "decoded"
    /\ UNCHANGED callFrame

CodecNext == Encode \/ Decode

SpecCodec == CodecInit /\ [][CodecNext]_vars

-----------------------------------------------------------------------------
(* Properties of the path codec *)

RECURSIVE JoinWith(_,_)
\* the parts with sep (a string) between them
JoinWith(parts, sep) ==
    IF Len(parts) <= 1 THEN Concat(parts)
    ELSE parts[1] \o sep \o JoinWith(Tail(parts), sep)

\* C12: decoding an encoded path with the same suffix gives the path back;
\* the encoded path is prefix, encoded region, suffix, the two affixes as
\* given, and the region has %2F wherever the path has a separator.
C12_CodecRoundTrip ==
    call # None /\ call[1].fn \in {"encode_path", "decode_path"} =>
        LET c == call[1]
            region == SubSeq(c.id, Len(c.prefix) + 1,
                             Len(c.id) - Len(c.suffix))
        IN  /\ StartsWith(c.id, c.prefix)
            /\ EndsWith(c.id, c.suffix)
            /\ Len(c.id) >= Len(c.prefix) + Len(c.suffix)
            /\ \A i \in 1..Len(region) : region[i] # "/"
            /\ (\A i \in 1..Len(c.path) : c.path[i] # "%") =>
                   region = JoinWith(Split(c.path, "/"), <<"%", "2", "F">>)
            /\ (c.decoded # None /\ c.prefix = <<>>) =>
                   c.decoded[1] = c.path

\* the path %/a was encoded with the suffix %2F and decoded again
C12_Witness ==
    /\ call # None
    /\ call[1].fn = "decode_path"
    /\ call[1].path = <<"%", "/", "a">>
    /\ call[1].suffix = <<"%", "2", "F">>
    /\ call[1].prefix = <<>>
    /\ call[1].id = <<"%", "2", "5", "%", "2", "F", "a", "%", "2", "F">>
    /\ call[1].decoded = Some(<<"%", "/", "a">>)

-----------------------------------------------------------------------------
(* div_structure called on its own *)

\* object paths given to div_structure, in sorted order
TreePathPool ==
    << <<"a">>, <<"a", "/", "a">>, <<"a", "/", "a", "/", "a">>,
       <<"a", "/", "b">>, <<"b">>, <<"b", "/", "a">>, <<"c">> >>

TreeFileLists ==
    {Pick(TreePathPool, idx, 1) :
        idx \in {x \in SUBSET (1..Len(TreePathPool)) :
                    Cardinality(x) <= MaxFiles}}

TreeInit ==
    /\ IdleReferences
    /\ IdleCompile
    /\ IdleEad
    /\ IdleCall
    /\ refTables = [c \in Categories |-> NoTable]
    /\ filelist \in TreeFileLists
    /\ scraper = [i \in PklStems |-> None]
    /\ wsNames = <<>>
    /\ structType = None
    /\ rootType = None
    /\ filesec = <<>>
    /\ structmap = None
    /\ uuidCount = 0
    /\ outFiles = {}
    /\ err = ""
    /\ pc = "idle"

\* divs = div_structure(filelist)
DivStructure ==
    /\ pc = "idle"
    /\ call' = Some([fn |-> "div_structure", divs |-> div_structure(filelist)])
    /\ pc' = "built"
    /\ UNCHANGED callFrame

TreeNext == DivStructure

SpecTree == TreeInit /\ [][TreeNext]_vars

-----------------------------------------------------------------------------
(* Properties of div_structure *)

RECURSIVE Flatten(_,_)
\* the paths of the leaves of the tree, depth first, children in the order
\* they were inserted
Flatten(t, path) ==
    IF t = <<>> THEN <<>>
    ELSE (IF Head(t).sub = <<>>
          THEN <<path_join(path, Head(t).name)>>
          ELSE Flatten(Head(t).sub, path_join(path, Head(t).name)))
         \o Flatten(Tail(t), path)

\* C13: flattening the tree built by div_structure from a sorted list of
\* object paths gives the list back, in the same order.
C13_TreeFidelity ==
    call # None /\ call[1].fn = "div_structure" =>
        Flatten(call[1].divs, <<>>) = filelist

-----------------------------------------------------------------------------
(* compile_structmap.main, filesystem strategy, over a deeper tree *)

\* object paths in two directories and a sub-directory and one with a
\* space, in sorted order
TypingPathPool ==
    << <<"a", "/", "a">>, <<"a", "/", "b">>, <<"b", "/", "a">>,
       <<"b", "/", "b", "/", "a">>, <<"c">>, <<"c", " ", "d">> >>

TypingFileLists ==
    {Pick(TypingPathPool, idx, 1) :
        idx \in {x \in SUBSET (1..Len(TypingPathPool)) :
                    Cardinality(x) <= MaxFiles}}

ROOT_TYPE == <<"r">>

\* every listed file has the record ID1, whose pickle may give an order
TypingInit ==
    /\ IdleReferences
    /\ IdleCompile
    /\ IdleEad
    /\ IdleCall
    /\ filelist \in TypingFileLists
    /\ refTables = TableOf(FileReferences(filelist,
                       [i \in 1..Len(filelist) |-> {ID1}], 1))
    /\ \E v \in {None, Some(PklOrder(1))} :
           scraper = [i \in PklStems |-> IF i = Tail(ID1) THEN v ELSE None]
    /\ wsNames = <<>>
    /\ structType \in {Some("Directory-physical"), Some("Fairdata-physical")}
    /\ rootType \in {None, Some(ROOT_TYPE)}
    /\ filesec = <<>>
    /\ structmap = None
    /\ uuidCount = 0
    /\ outFiles = {}
    /\ err = ""
    /\ pc = "start"

SpecTyping == TypingInit /\ [][FSNext]_vars

-----------------------------------------------------------------------------
(* Properties of the div typing *)

\* the sub-directory divs and the bare file pointers of a div, in order
DirectoryDivs(d) == SelectSeq(d.children, LAMBDA e : SiblingKind(e) = 3)
BarePointers(d) == SelectSeq(d.children, LAMBDA e : SiblingKind(e) = 1)

\* the path segment a directory div stands for
SegmentOf(e) ==
    IF structType = Some("Directory-physical") THEN e.label[1] ELSE e.type[1]

\* the first position in the object list of a path inside the directory
FirstInside(dir) ==
    CHOOSE i \in 1..Len(filelist) :
        /\ StartsWith(filelist[i], dir \o <<"/">>)
        /\ \A j \in 1..(i - 1) : ~StartsWith(filelist[j], dir \o <<"/">>)

\* the position in the object list of the file a pointer refers to
PointerPosition(e) ==
    CHOOSE i \in 1..Len(filesec) : filesec[i].ID = e.fileid[1]

\* the names of the directories directly inside the directory path that
\* hold a listed file
DirectoriesInside(path) ==
    LET at == IF path = <<>> THEN <<>> ELSE Split(path, "/")
        inside == {q \in {Split(f, "/") : f \in Range(filelist)} :
                      /\ Len(q) > Len(at) + 1
                      /\ SubSeq(q, 1, Len(at)) = at}
    IN  {q[Len(at) + 1] : q \in inside}

RECURSIVE DirectoriesTyped(_,_)
\* the directory divs under d, the div of directory path, are typed and
\* labelled by their path segment and ordered as the object list
DirectoriesTyped(d, path) ==
    LET dirs == DirectoryDivs(d)
        ptrs == BarePointers(d)
        sub(i) == IF path = <<>> THEN SegmentOf(dirs[i])
                  ELSE path \o <<"/">> \o SegmentOf(dirs[i])
    IN  /\ {SegmentOf(dirs[i]) : i \in 1..Len(dirs)} = DirectoriesInside(path)
        /\ Len(dirs) = Cardinality(DirectoriesInside(path))
        /\ \A i \in 1..Len(dirs) :
               /\ IF structType = Some("Directory-physical")
                  THEN /\ dirs[i].type = Some(DIRECTORY)
                       /\ dirs[i].label # None
                  ELSE dirs[i].label = None
               /\ \E q \in Range(filelist) :
                      StartsWith(q, sub(i) \o <<"/">>)
               /\ DirectoriesTyped(dirs[i], sub(i))
        /\ \A i, j \in 1..Len(dirs) :
               i < j => FirstInside(sub(i)) < FirstInside(sub(j))
        /\ \A i, j \in 1..Len(ptrs) :
               i < j => PointerPosition(ptrs[i]) < PointerPosition(ptrs[j])
        /\ \A i \in 1..Len(ptrs) :
               Dirname(filelist[PointerPosition(ptrs[i])]) = path

\* C14: with Directory-physical the root div and the directory divs have
\* type 'directory' and the path segment as label ('.' for the root); with
\* another type a directory div's type is its path segment and the root's
\* type is root_type, or 'directory' without one; the directory divs and the
\* file pointers of one parent follow the order of the object list.
C14_DivTyping ==
    structmap # None =>
        LET root == structmap[1].div
        IN  /\ IF structType = Some("Directory-physical")
               THEN /\ root.type = Some(DIRECTORY)
                    /\ root.label = Some(<<".">>)
               ELSE /\ root.type = IF rootType # None THEN rootType
                                   ELSE Some(DIRECTORY)
                    /\ root.label = None
            /\ DirectoriesTyped(root, <<>>)

\* a root typed by root_type over the directories a and b, b with the
\* sub-directory b/b
C14_Witness ==
    /\ pc = "done"
    /\ structType = Some("Fairdata-physical")
    /\ rootType = Some(ROOT_TYPE)
    /\ filelist = << <<"a", "/", "a">>, <<"b", "/", "a">>,
                     <<"b", "/", "b", "/", "a">> >>
    /\ LET dirs == DirectoryDivs(structmap[1].div)
       IN  /\ Len(dirs) = 2
           /\ dirs[1].type = Some(<<"a">>)
           /\ dirs[2].type = Some(<<"b">>)
           /\ Len(BarePointers(dirs[2])) + Len(DirectoryDivs(dirs[2])) = 2

-----------------------------------------------------------------------------
(* Properties of the fileSec locations *)

\* s with every occurrence of the character c written as the string by
Replaced(s, c, by) == JoinWith(Split(s, c), by)

\* C15 as stated: the href of a fileSec entry is the percent-encoded path,
\* with %2F for the path separator, and get_fileid finds the entry of a
\* path by that href.
C15_SeparatorEscaped ==
    FilesecBuilt =>
        \A i \in 1..Len(filelist) :
            /\ filesec[i].href =
                   FILE_URL \o Replaced(Replaced(filelist[i], " ",
                                                 <<"%", "2", "0">>),
                                        "/", <<"%", "2", "F">>)
            /\ get_fileid(filesec, filelist[i]) = Ok(filesec[i].ID)

\* C15 amended: the href of a fileSec entry is file:// followed by the
\* percent-encoded path in which the path separator '/' is kept as it is,
\* and get_fileid finds the entry of a path by that href.
C15_SeparatorKept ==
    FilesecBuilt =>
        \A i \in 1..Len(filelist) :
            /\ filesec[i].href =
                   FILE_URL \o Replaced(filelist[i], " ", <<"%", "2", "0">>)
            /\ get_fileid(filesec, filelist[i]) = Ok(filesec[i].ID)

\* the fileSec holds the entries of b/b/a and of 'c d', and the structMap
\* points to both
C15_Witness ==
    /\ pc = "done"
    /\ filelist = << <<"b", "/", "b", "/", "a">>, <<"c", " ", "d">> >>
    /\ filesec[1].href = FILE_URL \o <<"b", "/", "b", "/", "a">>
    /\ filesec[2].href = FILE_URL \o <<"c", "%", "2", "0", "d">>
    /\ Len(FptrIds(structmap[1].div)) = 2

-----------------------------------------------------------------------------
(* Properties of the metadata-record ids *)

\* the id every stage derives for the fragment dmdsec.xml
DmdsecId == encode_id(DMDSEC_XML)

-----------------------------------------------------------------------------
(* Properties of the filesystem strategy without references *)

\* the listed files the reference table has no entry for
Unreferenced ==
    {q \in Range(filelist) :
        ~\E e \in Range(refTables["amd"].entries) : e.file = Some(q)}

\* C17: when the workspace has no reference table, or the table has no
\* entry for some listed file, create_filesec followed by create_structmap
\* over a non-empty list still completes: the lookup gives the empty set,
\* the fileSec entry of such a file has no administrative ids, and the
\* structMap holds one file pointer per listed path.
C17_MissingTableTolerated ==
    /\ pc \in {"structmap", "done", "failed"}
    /\ filelist # <<>>
    /\ Unreferenced # {}
    /\ ~StructureConflict(filelist)
    => /\ \A i \in 1..Len(filelist) :
              filelist[i] \in Unreferenced => filesec[i].admid = {}
       /\ pc # "failed"
       /\ structmap # None
       /\ Len(FptrIds(structmap[1].div)) = Len(filelist)

-----------------------------------------------------------------------------
(* Properties of the fileSec of the finding-aid strategy *)

\* the ids of the file pointers of the structMap built, in document order
EadFptrIds == IF structmap = None THEN <<>> ELSE FptrIds(structmap[1].div)

\* the positions at which the fileSec holds an entry for the path
EntriesOfPath(path) ==
    {i \in 1..Len(filesec) : filesec[i].href = HrefOf(path)}

\* C18: after the finding-aid build, a path linked from several components
\* or by several links of one component has exactly one fileSec entry, to
\* which every file pointer for it refers, and the id of each file pointer
\* occurs exactly once in the fileSec.
C18_EntryReused ==
    ead # None /\ pc \in {"structmap", "done"} =>
        /\ \A q \in Range(filelist) : Cardinality(EntriesOfPath(q)) <= 1
        /\ \A k \in 1..Len(EadFptrIds) :
               Cardinality(EntriesWithId(EadFptrIds[k])) = 1

\* the part of C18 the build keeps: one fileSec entry per link, in the order
\* of the file pointers, each id exactly once in the fileSec
C18_EntryPerLink ==
    ead # None /\ pc \in {"structmap", "done"} =>
        /\ Len(filesec) = Len(EadFptrIds)
        /\ \A k \in 1..Len(EadFptrIds) :
               Cardinality(EntriesWithId(EadFptrIds[k])) = 1

-----------------------------------------------------------------------------
(* The finding-aid strategy over deeply nested components *)

\* the deepest nesting of the components of the model
MaxDepth == 11

\* the tag of a numbered component at a depth: c01 ... c12
NumberedTag(k) ==
    <<"c">> \o (IF k < 10 THEN <<"0">> \o DecStr(k) ELSE DecStr(k))

\* the tag of the component at depth k: every component numbered by its
\* depth, every component an unnumbered c, or numbered components under an
\* unnumbered c
TagAt(shape, k) ==
    CASE shape = "numbered" -> NumberedTag(k)
      [] shape = "plain" -> <<"c">>
      [] shape = "mixed" -> IF k = 1 THEN <<"c">> ELSE NumberedTag(k)

RECURSIVE Nested(_,_,_,_,_)
\* the component at depth k of a finding aid in which every component but
\* the deepest one holds one component; the component at depth other has
\* an otherlevel attribute and the deepest one has the did
Nested(shape, k, depth, other, did) ==
    Component(TagAt(shape, k), Some(<<"s">>),
              IF k = other THEN Some(<<"r">>) ELSE None,
              IF k = depth THEN did ELSE <<>>,
              IF k = depth THEN <<>>
              ELSE <<Nested(shape, k + 1, depth, other, did)>>)

DeepFindingAids ==
    {[level |-> Some(<<"c">>), otherlevel |-> None,
      dsc |-> Some(<<Nested(shape, 1, depth, other, did)>>)] :
        shape \in {"numbered", "plain", "mixed"},
        depth \in 1..MaxDepth,
        other \in 0..MaxDepth,
        did \in {<<>>, <<Dao(<<"b">>)>>}}

DeepInit ==
    /\ IdleReferences
    /\ IdleCompile
    /\ ead \in {Some(d) : d \in DeepFindingAids}
    /\ IdleCall
    /\ filelist \in EadFileLists
    /\ refTables = TableOf(FileReferences(filelist,
                       [i \in 1..Len(filelist) |->
                           IF i = 1 THEN {ID1} ELSE {}], 1))
    /\ scraper = [i \in PklStems |-> None]
    /\ wsNames = <<DMDSEC_XML>>
    /\ structType = Some("EAD3-logical")
    /\ rootType = None
    /\ filesec = <<>>
    /\ structmap = None
    /\ uuidCount = 0
    /\ outFiles = {}
    /\ err = ""
    /\ pc = "start"

SpecDeep == DeepInit /\ [][EadNext]_vars

-----------------------------------------------------------------------------
(* Properties of the divs of the finding-aid strategy *)

\* the label the div of a component is to carry
LabelOf(comp) ==
    IF comp.otherlevel # None THEN comp.otherlevel ELSE comp.level

RECURSIVE TypedAs(_,_)
\* the divs are those of the components, one by one and level by level,
\* each typed by the tag of its component and labelled by its level
TypedAs(comps, divs) ==
    /\ Len(comps) = Len(divs)
    /\ \A i \in 1..Len(comps) :
           /\ divs[i].type = Some(comps[i].tag)
           /\ divs[i].label = LabelOf(comps[i])
           /\ TypedAs(comps[i].subs,
                      SelectSeq(divs[i].children, LAMBDA e : e.tag = "div"))

\* the divs of the components under dsc: the children of the archdesc div
ComponentDivs ==
    SelectSeq(structmap[1].div.children[1].children,
              LAMBDA e : e.tag = "div")

\* the depth of the deepest component of the finding aid
RECURSIVE DepthOf(_)
DepthOf(comps) ==
    IF comps = <<>> THEN 0 ELSE 1 + DepthOf(comps[1].subs)

\* C19: the div of every component, at every depth and whatever the tag of
\* the component under dsc, is typed by the component's own tag and
\* labelled by its otherlevel attribute if it has one, else by its level
\* attribute.
C19_TypeIsOwnTag ==
    ead # None /\ pc \in {"structmap", "done"} =>
        TypedAs(ead[1].dsc[1], ComponentDivs)

-----------------------------------------------------------------------------
(* The filesystem strategy over a workspace with descriptive fragments *)

\* object paths of the model, in sorted order: the directories a, a/b,
\* a/b/c, ab and d
DmdPathPool ==
    << <<"a", "/", "b", "/", "c", "/", "a">>, <<"a", "/", "c">>,
       <<"a", "b", "/", "c">>, <<"d", "/", "a">> >>

DmdFileLists ==
    {Pick(DmdPathPool, idx, 1) :
        idx \in {x \in SUBSET (1..Len(DmdPathPool)) :
                    Cardinality(x) <= MaxFiles}}

DMDSEC_SUFFIX == <<"-">> \o DMDSEC_XML

\* the name of the descriptive fragment written for a directory of the
\* package, dmdsec.xml for the package itself
DmdFragmentName(target) ==
    IF target = None THEN DMDSEC_XML
    ELSE encode_path_affixed(target[1], DMDSEC_SUFFIX, <<>>)

\* the targets descriptive fragments are written for
DmdTargets ==
    <<None, Some(<<"a">>), Some(<<"a", "/", "b">>),
      Some(<<"a", "/", "b", "/", "c">>), Some(<<"a", "b">>),
      Some(<<"d">>)>>

\* the file names of a workspace holding the fragments of some targets
DmdWorkspaces ==
    {Pick([i \in 1..Len(DmdTargets) |-> DmdFragmentName(DmdTargets[i])],
          idx, 1) :
        idx \in {x \in SUBSET (1..Len(DmdTargets)) :
                    Cardinality(x) <= MaxFrags}}

\* every listed file has the record ID1; the workspace holds descriptive
\* fragments
DmdInit ==
    /\ IdleReferences
    /\ IdleCompile
    /\ IdleEad
    /\ IdleCall
    /\ filelist \in DmdFileLists
    /\ refTables = TableOf(FileReferences(filelist,
                       [i \in 1..Len(filelist) |-> {ID1}], 1))
    /\ scraper = [i \in PklStems |-> None]
    /\ wsNames \in DmdWorkspaces
    /\ structType \in {Some("Directory-physical"), Some("Fairdata-physical")}
    /\ rootType = None
    /\ filesec = <<>>
    /\ structmap = None
    /\ uuidCount = 0
    /\ outFiles = {}
    /\ err = ""
    /\ pc = "start"

SpecDmd == DmdInit /\ [][FSNext]_vars

-----------------------------------------------------------------------------
(* Properties of the descriptive ids of directories *)

\* the ids of the fragments written for exactly the directory
FragmentIdsOf(dir) ==
    IF DmdFragmentName(Some(dir)) \in Range(wsNames)
    THEN <<encode_id(DmdFragmentName(Some(dir)))>> ELSE <<>>

RECURSIVE DmdidsExact(_,_)
\* every directory div under d, the div of directory path, carries the id
\* of the fragment written for its directory and no other id
DmdidsExact(d, path) ==
    LET dirs == DirectoryDivs(d)
        sub(i) == IF path = <<>> THEN SegmentOf(dirs[i])
                  ELSE path \o <<"/">> \o SegmentOf(dirs[i])
    IN  \A i \in 1..Len(dirs) :
            /\ dirs[i].dmdid = FragmentIdsOf(sub(i))
            /\ DmdidsExact(dirs[i], sub(i))

\* C20: the div of a directory carries the id of a descriptive fragment
\* exactly when the fragment was written for that directory: never the id
\* of the fragment of a sub-directory, of a directory whose name contains
\* the directory's encoded path, or of the package, and no id when there is
\* no fragment for the directory.
C20_DmdidOfOwnFragment ==
    structmap # None => DmdidsExact(structmap[1].div, <<>>)

=============================================================================
